---- MODULE Spec2Model ----
(***************************************************************************)
(* Bookstore multi-agent simulation (bookstore_bms.py).                    *)
(*                                                                         *)
(* The script builds an ontology with three Book individuals, registers    *)
(* two SWRL rules, builds a Mesa model with CustomerAgent and              *)
(* EmployeeAgent objects under a RandomActivation scheduler, runs a fixed  *)
(* number of scheduler steps, reports the final inventory and finally      *)
(* calls the reasoner.  Prices are held in hundredths (12.5 -> 1250).      *)
(***************************************************************************)
EXTENDS Integers, Sequences, FiniteSets, TLC

\* Bounds of the model: the script runs 8 customers, 2 employees, 15 steps.
MaxCustomers == 2
MaxEmployees == 2
MaxTicks == 3

\* Program constants.
InitialQuantity == 5
RestockThreshold == 2
RestockAmount == 3
EmployeeIdBase == 100

VARIABLES
    availableQuantity,  \* Book name -> availableQuantity data property
    hasPrice,           \* Book name -> hasPrice data property (hundredths)
    rule1,              \* purchase rule: "unset" | "added" | "rejected"
    rule2,              \* restock rule:  "unset" | "added" | "rejected"
    numCustomers,       \* num_customers passed to BookstoreModel
    numEmployees,       \* num_employees passed to BookstoreModel
    numTicks,           \* the range of the run loop
    agents,             \* model.schedule.agents, in order of registration
    purchased,          \* CustomerAgent unique_id -> its purchased list
    i,                  \* the run loop's variable
    steps,              \* model.schedule.steps
    order,              \* the shuffled agent buffer of the running step
    pos,                \* number of agents of order already activated
    book,               \* the book drawn by the customer step that just ran
    exported,           \* what section 6 printed, saved and plotted
    reasoner,           \* "unset" | "finished" | "could not run"
    pc,                 \* position in the script
    other,              \* a second run of the script, given the same draws
    acted,              \* history: agents activated in the running step
    ticksRun,           \* history: the step numbers printed by the run loop
    restocks            \* history: Book name -> restocks applied by agents

vars == <<availableQuantity, hasPrice, rule1, rule2, numCustomers,
          numEmployees, numTicks, agents, purchased, i, steps, order, pos,
          book, exported, reasoner, pc, other, acted, ticksRun, restocks>>

----------------------------------------------------------------------------
\* Section 1: the ontology's individuals.

books == <<"b1", "b2", "b3">>

BookNames == {books[k] : k \in 1..Len(books)}

NoBook == "none"

InitialPrice == [b \in BookNames |->
                    CASE b = "b1" -> 1250 [] b = "b2" -> 1500 [] OTHER -> 999]

\* No Customer(...) or Employee(...) individual is ever created, and no
\* purchases(c, b) assertion is ever made: the agents are Mesa objects and
\* CustomerAgent.purchased is a plain list of the agent.
ontoCustomers == {}

\* Mutation: every EmployeeAgent is also made an Employee individual.
ontoEmployeesFromAgents == {a \in {agents[k] : k \in 1..Len(agents)} : a >= EmployeeIdBase}

ontoEmployees == {}

\* Mutation: the agents' purchased lists are asserted as purchases(c, b).
ontoPurchasesFromAgents == purchased

ontoPurchases == [c \in ontoCustomers |-> <<>>]

----------------------------------------------------------------------------
\* Helpers.

RECURSIVE CountIn(_, _)
CountIn(s, b) ==
    IF s = <<>> THEN 0
    ELSE (IF Head(s) = b THEN 1 ELSE 0) + CountIn(Tail(s), b)

RECURSIVE SumOver(_, _, _)
SumOver(f, S, b) ==
    IF S = {} THEN 0
    ELSE LET c == CHOOSE x \in S : TRUE
         IN  CountIn(f[c], b) + SumOver(f, S \ {c}, b)

\* Number of entries for book b in all the logs of the relation f.
Purchases(f, b) == SumOver(f, DOMAIN f, b)

Range(s) == {s[k] : k \in 1..Len(s)}

\* Mutation: the buffer is drawn with replacement (random.choices).
ShufflesWithRepeats(s) == [1..Len(s) -> Range(s)]

\* random.shuffle: every ordering of the registered agents.
Shuffles(s) ==
    {p \in [1..Len(s) -> Range(s)] : \A a \in Range(s) : \E k \in 1..Len(s) : p[k] = a}

CustomerIds(n) == 0..(n - 1)

EmployeeIds(n) == EmployeeIdBase..(EmployeeIdBase + n - 1)

IsCustomer(a) == a < EmployeeIdBase

----------------------------------------------------------------------------
\* Section 3: the agents' steps, as functions of the state they read.

\* Mutation: a Book is destroyed when its last copy is sold.
CustomerStepQuantityDestroysSoldOut(qty, b) ==
    IF qty[b] > 1 THEN [qty EXCEPT ![b] = @ - 1]
    ELSE IF qty[b] = 1 THEN [x \in (DOMAIN qty) \ {b} |-> qty[x]]
    ELSE qty

\* Mutation: the stock test of line 86 is dropped for the decrement.
CustomerStepQuantityUnguarded(qty, b) == [qty EXCEPT ![b] = @ - 1]

\* CustomerAgent.step, with book the result of random.choice.
CustomerStepQuantity(qty, b) ==
    IF qty[b] > 0 THEN [qty EXCEPT ![b] = @ - 1] ELSE qty

\* Mutation: the purchase is inserted at the front of the list.
CustomerStepPurchasedAtFront(qty, log, b) ==
    IF qty[b] > 0 THEN <<b>> \o log ELSE log

\* Mutation: the append is moved out of the if of line 86.
CustomerStepPurchasedAlways(qty, log, b) == Append(log, b)

\* Mutation: str(book) ("bookstore.b1") is appended instead of book.name.
CustomerStepPurchasedQualified(qty, log, b) ==
    IF qty[b] > 0
    THEN Append(log, CASE b = "b1" -> "bookstore.b1"
                       [] b = "b2" -> "bookstore.b2"
                       [] OTHER    -> "bookstore.b3")
    ELSE log

CustomerStepPurchased(qty, log, b) ==
    IF qty[b] > 0 THEN Append(log, b) ELSE log

\* The books an employee step restocks.
Restocked(qty) == {b \in BookNames : qty[b] < RestockThreshold}

\* EmployeeAgent.step: the loop over self.model.books, from index k on.
RECURSIVE EmployeeLoop(_, _)
EmployeeLoop(qty, k) ==
    IF k > Len(books) THEN qty
    ELSE LET b == books[k]
         IN  EmployeeLoop(IF qty[b] < RestockThreshold
                             THEN [qty EXCEPT ![b] = @ + RestockAmount]
                             ELSE qty,
                          k + 1)

\* Mutation: the test of line 96 is dropped, every Book is restocked.
EmployeeStepQuantityUnconditional(qty) ==
    [b \in DOMAIN qty |-> qty[b] + RestockAmount]

\* Mutation: the test of line 96 reads <= 2.
EmployeeStepQuantityInclusive(qty) ==
    [b \in DOMAIN qty |->
        IF qty[b] <= RestockThreshold THEN qty[b] + RestockAmount ELSE qty[b]]

\* Mutation: the loop of line 95 returns after its first iteration.
EmployeeStepQuantityFirstBook(qty) ==
    IF qty[books[1]] < RestockThreshold
    THEN [qty EXCEPT ![books[1]] = @ + RestockAmount]
    ELSE qty

EmployeeStepQuantity(qty) == EmployeeLoop(qty, 1)

----------------------------------------------------------------------------
\* Sections 2 and 7: the two rules, evaluated over the ontology's individuals.

\* Rule 1: Customer(?c), Book(?b), purchases(?c, ?b), availableQuantity(?b, ?q)
\*         -> availableQuantity(?b, ?q - 1), over the ontology's individuals.
Rule1Apply(qty) ==
    [b \in DOMAIN qty |-> qty[b] - Purchases(ontoPurchases, b)]

\* Rule 2: Employee(?e), Book(?b), availableQuantity(?b, ?q), lessThan(?q, 2)
\*         -> availableQuantity(?b, ?q + 3), over the ontology's individuals.
Rule2Apply(qty) ==
    [b \in DOMAIN qty |->
        IF ontoEmployees # {} /\ qty[b] < 2 THEN qty[b] + 3 ELSE qty[b]]

\* sync_reasoner(): one sweep over the rules that were added, in the order
\* of their registration.
SyncReasoner(qty, r1, r2) ==
    LET q1 == IF r1 = "added" THEN Rule1Apply(qty) ELSE qty
    IN  IF r2 = "added" THEN Rule2Apply(q1) ELSE q1

----------------------------------------------------------------------------
\* The script, top to bottom.

\* The store of a second run of the script; on says whether it is followed.
OtherRun(on) ==
    [on |-> on,
     availableQuantity |-> [b \in BookNames |-> InitialQuantity],
     hasPrice |-> InitialPrice,
     purchased |-> <<>>,
     rule1 |-> "unset",
     rule2 |-> "unset",
     reasoner |-> "unset"]

\* The outcomes the second run may see where the first sees one of BOOLEAN.
OtherOutcomes == IF other.on THEN BOOLEAN ELSE {FALSE}

\* The state when the ontology of section 1 is set up, for a run with or
\* without a second run followed beside it.
SetUp(on) ==
    /\ availableQuantity = [b \in BookNames |-> InitialQuantity]
    /\ hasPrice = InitialPrice
    /\ rule1 = "unset"
    /\ rule2 = "unset"
    /\ numCustomers \in 1..MaxCustomers
    /\ numEmployees \in 0..MaxEmployees
    /\ numTicks \in 0..MaxTicks
    /\ agents = <<>>
    /\ purchased = <<>>
    /\ i = 0
    /\ steps = 0
    /\ order = <<>>
    /\ pos = 0
    /\ book = NoBook
    /\ exported = <<>>
    /\ reasoner = "unset"
    /\ pc = "rule1"
    /\ other = OtherRun(on)
    /\ acted = <<>>
    /\ ticksRun = <<>>
    /\ restocks = [b \in BookNames |-> 0]

Init == SetUp(FALSE)

\* Mutation: both rules share one try block, so a failure of rule 1 skips
\* the registration of rule 2.
AfterRule1SharedTry(ok) == IF ok THEN "rule2" ELSE "model"

\* Where the script goes on after the try/except of rule 1.
AfterRule1(ok) == "rule2"

\* Lines 55-63: set_as_rule either succeeds or raises, and the except
\* clause prints and goes on.
AddRule1 ==
    /\ pc = "rule1"
    /\ \E ok \in BOOLEAN :
         /\ rule1' = IF ok THEN "added" ELSE "rejected"
         /\ pc' = AfterRule1(ok)
    /\ \E ok2 \in OtherOutcomes :
         other' = IF other.on
                  THEN [other EXCEPT !.rule1 = IF ok2 THEN "added" ELSE "rejected"]
                  ELSE other
    /\ UNCHANGED <<availableQuantity, hasPrice, rule2, numCustomers,
                   numEmployees, numTicks, agents, purchased, i, steps,
                   order, pos, book, exported, reasoner, acted, ticksRun,
                   restocks>>

\* Lines 66-74.
AddRule2 ==
    /\ pc = "rule2"
    /\ \E ok \in BOOLEAN : rule2' = IF ok THEN "added" ELSE "rejected"
    /\ pc' = "model"
    /\ \E ok2 \in OtherOutcomes :
         other' = IF other.on
                  THEN [other EXCEPT !.rule2 = IF ok2 THEN "added" ELSE "rejected"]
                  ELSE other
    /\ UNCHANGED <<availableQuantity, hasPrice, rule1, numCustomers,
                   numEmployees, numTicks, agents, purchased, i, steps,
                   order, pos, book, exported, reasoner, acted, ticksRun,
                   restocks>>

\* BookstoreModel.__init__: customers 0..n-1, then employees 100..100+m-1.
RegisteredAgents(n, m) ==
    [k \in 1..(n + m) |-> IF k <= n THEN k - 1 ELSE EmployeeIdBase + (k - n - 1)]

CreateModel ==
    /\ pc = "model"
    /\ agents' = RegisteredAgents(numCustomers, numEmployees)
    /\ purchased' = [c \in CustomerIds(numCustomers) |-> <<>>]
    /\ pc' = "loop"
    /\ other' = IF other.on
                THEN [other EXCEPT !.purchased =
                                      [c \in CustomerIds(numCustomers) |-> <<>>]]
                ELSE other
    /\ UNCHANGED <<availableQuantity, hasPrice, rule1, rule2, numCustomers,
                   numEmployees, numTicks, i, steps, order, pos, book,
                   exported, reasoner, acted, ticksRun, restocks>>

\* Mutation: the loop runs one value too far.
LoopContinuesInclusive(k, n) == k <= n

\* The run loop goes on while i is in range(numTicks).
LoopContinues(k, n) == k < n

\* One iteration of the run loop begins: the step number is printed and
\* model.step() calls schedule.step(), which shuffles the agents.
BeginStep ==
    /\ pc = "loop"
    /\ LoopContinues(i, numTicks)
    /\ \E p \in Shuffles(agents) : order' = p
    /\ pos' = 0
    /\ acted' = <<>>
    /\ ticksRun' = Append(ticksRun, i + 1)
    /\ pc' = "step"
    /\ UNCHANGED <<other, availableQuantity, hasPrice, rule1, rule2, numCustomers,
                   numEmployees, numTicks, agents, purchased, i, steps, book,
                   exported, reasoner, restocks>>

\* The next agent of the shuffled buffer is a customer: CustomerAgent.step.
CustomerAct ==
    /\ pc = "step"
    /\ pos < Len(order)
    /\ IsCustomer(order[pos + 1])
    /\ LET c == order[pos + 1]
       IN  \E b \in BookNames :
             /\ book' = b
             /\ availableQuantity' = CustomerStepQuantity(availableQuantity, b)
             /\ purchased' = [purchased EXCEPT ![c] =
                                CustomerStepPurchased(availableQuantity, @, b)]
             /\ other' = IF other.on
                         THEN [other EXCEPT
                                 !.availableQuantity =
                                     CustomerStepQuantity(other.availableQuantity, b),
                                 !.purchased[c] =
                                     CustomerStepPurchased(other.availableQuantity, @, b)]
                         ELSE other
             /\ acted' = Append(acted, c)
    /\ pos' = pos + 1
    /\ UNCHANGED <<hasPrice, rule1, rule2, numCustomers, numEmployees,
                   numTicks, agents, i, steps, order, exported, reasoner, pc,
                   ticksRun, restocks>>

\* The next agent of the shuffled buffer is an employee: EmployeeAgent.step.
EmployeeAct ==
    /\ pc = "step"
    /\ pos < Len(order)
    /\ ~IsCustomer(order[pos + 1])
    /\ availableQuantity' = EmployeeStepQuantity(availableQuantity)
    /\ restocks' = [b \in BookNames |->
                      IF b \in Restocked(availableQuantity)
                      THEN restocks[b] + 1 ELSE restocks[b]]
    /\ acted' = Append(acted, order[pos + 1])
    /\ book' = NoBook
    /\ pos' = pos + 1
    /\ other' = IF other.on
                THEN [other EXCEPT !.availableQuantity =
                                      EmployeeStepQuantity(other.availableQuantity)]
                ELSE other
    /\ UNCHANGED <<hasPrice, rule1, rule2, numCustomers, numEmployees,
                   numTicks, agents, purchased, i, steps, order, exported,
                   reasoner, pc, ticksRun>>

\* The buffer is exhausted: schedule.step() counts the step and returns (its
\* buffer is gone), and the run loop takes its next value.
EndStep ==
    /\ pc = "step"
    /\ pos = Len(order)
    /\ steps' = steps + 1
    /\ i' = i + 1
    /\ order' = <<>>
    /\ pos' = 0
    /\ acted' = <<>>
    /\ book' = NoBook
    /\ pc' = "loop"
    /\ UNCHANGED <<other, availableQuantity, hasPrice, rule1, rule2, numCustomers,
                   numEmployees, numTicks, agents, purchased, exported,
                   reasoner, ticksRun, restocks>>

\* range(numTicks) is exhausted: "Simulation finished".
EndLoop ==
    /\ pc = "loop"
    /\ ~LoopContinues(i, numTicks)
    /\ pc' = "results"
    /\ UNCHANGED <<other, availableQuantity, hasPrice, rule1, rule2, numCustomers,
                   numEmployees, numTicks, agents, purchased, i, steps, order,
                   pos, book, exported, reasoner, acted, ticksRun, restocks>>

\* Section 6: the inventory and the purchases are printed, the ontology is
\* saved and the quantities are plotted.
Snapshot(qty, price, logs) ==
    [quantity |-> qty, price |-> price, purchased |-> logs]

ShowResults ==
    /\ pc = "results"
    /\ exported' = Snapshot(availableQuantity, hasPrice, purchased)
    /\ pc' = "reasoner"
    /\ UNCHANGED <<other, availableQuantity, hasPrice, rule1, rule2, numCustomers,
                   numEmployees, numTicks, agents, purchased, i, steps, order,
                   pos, book, reasoner, acted, ticksRun, restocks>>

\* Mutation: sync_reasoner() is called outside a try block, so its exception
\* ends the script with a traceback.
AfterReasonerUncaught(ok) == IF ok THEN "done" ELSE "aborted"

\* Where the script goes on after the try/except of section 7: its end.
AfterReasoner(ok) == "done"

\* Section 7: sync_reasoner() either finishes or raises, and the except
\* clause prints and goes on.
ApplyReasoner ==
    /\ pc = "reasoner"
    /\ \E ok \in BOOLEAN :
         /\ IF ok
            THEN /\ availableQuantity' = SyncReasoner(availableQuantity, rule1, rule2)
                 /\ reasoner' = "finished"
            ELSE /\ availableQuantity' = availableQuantity
                 /\ reasoner' = "could not run"
         /\ pc' = AfterReasoner(ok)
    /\ \E ok2 \in OtherOutcomes :
         other' = IF ~other.on THEN other
                  ELSE IF ok2
                  THEN [other EXCEPT
                          !.availableQuantity =
                              SyncReasoner(other.availableQuantity,
                                           other.rule1, other.rule2),
                          !.reasoner = "finished"]
                  ELSE [other EXCEPT !.reasoner = "could not run"]
    /\ UNCHANGED <<hasPrice, rule1, rule2, numCustomers, numEmployees,
                   numTicks, agents, purchased, i, steps, order, pos, book,
                   exported, acted, ticksRun, restocks>>

Next ==
    \/ AddRule1
    \/ AddRule2
    \/ CreateModel
    \/ BeginStep
    \/ CustomerAct
    \/ EmployeeAct
    \/ EndStep
    \/ EndLoop
    \/ ShowResults
    \/ ApplyReasoner

Spec == Init /\ [][Next]_vars

\* The script is one sequential thread: it always takes its next step.
FairSpec == Spec /\ WF_vars(Next)

\* Two runs of the script with the same setup parameters and the same draws
\* (shuffles and book choices); each run sees its own outcomes of
\* set_as_rule and sync_reasoner.
TwoRunsInit == SetUp(TRUE)

TwoRunsSpec == TwoRunsInit /\ [][Next]_vars

----------------------------------------------------------------------------
\* Vocabulary of the properties.

\* The step being taken is the step of a customer / of an employee agent.
IsCustomerStep ==
    /\ pc = "step" /\ pos < Len(order) /\ pos' = pos + 1
    /\ IsCustomer(order[pos + 1])

IsEmployeeStep ==
    /\ pc = "step" /\ pos < Len(order) /\ pos' = pos + 1
    /\ ~IsCustomer(order[pos + 1])

\* The run loop is over.
Finished == pc \in {"results", "reasoner", "done"}

\* All agents of the running step have been activated.
StepComplete == pc = "step" /\ pos = Len(order)

----------------------------------------------------------------------------
\* C1: in every reachable state every Book has availableQuantity >= 0 and
\* price >= 0.
QuantityAndPriceNonNegative ==
    \A b \in BookNames : availableQuantity[b] >= 0 /\ hasPrice[b] >= 0

\* A customer has just drawn a book that is sold out.
SoldOutBookDrawn ==
    /\ pc = "step"
    /\ book # NoBook
    /\ availableQuantity[book] = 0

\* C2: a customer step that draws a Book whose availableQuantity is 0 changes
\* no quantity and no purchased list.
OutOfStockIsNoOp ==
    [][(IsCustomerStep /\ availableQuantity[book'] = 0)
          => (availableQuantity' = availableQuantity /\ purchased' = purchased)]_vars

\* The customer that has just acted drew a sold-out book and holds fewer
\* purchases than it has taken steps: one of its steps bought nothing.
NoOpStepTaken ==
    /\ SoldOutBookDrawn
    /\ pos > 0
    /\ IsCustomer(acted[pos])
    /\ Len(purchased[acted[pos]]) < steps + 1

\* C3: an employee step raises by exactly 3 every Book below 2 and leaves
\* the others unchanged; an employee step that directly follows an employee
\* step changes nothing.
RestockerLaw ==
    [][IsEmployeeStep =>
          /\ \A b \in BookNames :
                availableQuantity'[b] =
                    IF availableQuantity[b] < 2 THEN availableQuantity[b] + 3
                    ELSE availableQuantity[b]
          /\ \A b \in BookNames : availableQuantity'[b] >= 2
          /\ (pos > 0 /\ ~IsCustomer(order[pos]))
                => availableQuantity' = availableQuantity]_vars

\* In the second step of the run both customers acted, then an employee
\* restocked a book, then a second employee ran directly after it.
RestockerRanTwice ==
    /\ StepComplete
    /\ steps = 1
    /\ pos >= 2
    /\ ~IsCustomer(acted[pos])
    /\ ~IsCustomer(acted[pos - 1])
    /\ \E b \in BookNames : restocks[b] = 1 /\ availableQuantity[b] = 4

\* The sequence s holds every registered agent exactly once.
EachAgentOnce(s) ==
    /\ Len(s) = Len(agents)
    /\ \A a \in Range(agents) : Cardinality({k \in 1..Len(s) : s[k] = a}) = 1

\* C4: one scheduler step is one tick in which every registered agent acts
\* exactly once, one after another in the drawn order: the agents activated
\* so far are the first pos agents of the drawn order, each activation is
\* one whole agent step, and the step is counted, once, when all have acted.
OneTickEveryAgentOnce ==
    /\ [](pc = "step" =>
             /\ EachAgentOnce(order)
             /\ pos <= Len(order)
             /\ acted = SubSeq(order, 1, pos))
    /\ [][(pc = "step" /\ pc' = "step") =>
             /\ (IsCustomerStep \/ IsEmployeeStep)
             /\ acted' = Append(acted, order[pos + 1])
             /\ order' = order
             /\ steps' = steps]_vars
    /\ [][steps' # steps =>
             /\ steps' = steps + 1
             /\ EachAgentOnce(acted)
             /\ acted = order]_vars

\* A second or later step has activated all of at least three agents, in an
\* order that is not the order of their registration.
ShuffledStepComplete ==
    /\ StepComplete
    /\ steps >= 1
    /\ Len(order) >= 3
    /\ order # agents
    /\ acted = order

\* The step numbers 1..n.
StepNumbers(n) == [k \in 1..n |-> k]

\* C5: the run goes Created -> Running(1..N) -> Finished and terminates:
\* the steps run are 1, 2, ... in increasing order without gap or repeat,
\* they are exactly 1..N when the loop is over, nothing runs afterwards, and
\* the script reaches its end.
RunsNTicksAndTerminates ==
    /\ [](ticksRun = StepNumbers(Len(ticksRun)))
    /\ [](Len(ticksRun) = IF pc = "step" THEN steps + 1 ELSE steps)
    /\ [](Finished => (ticksRun = StepNumbers(numTicks) /\ steps = numTicks))
    /\ [][Finished => (ticksRun' = ticksRun /\ steps' = steps /\ Finished')]_vars
    /\ <>(pc = "done")

\* The script has ended after a run of at least two steps.
RunOfSeveralTicksDone ==
    /\ pc = "done"
    /\ numTicks >= 2
    /\ ticksRun = StepNumbers(numTicks)

\* C6: no double application.  When the script has ended, reasoner pass
\* included, every Book's quantity is its initial quantity, less one per
\* purchase recorded by the customers, plus three per restock applied by the
\* employees.
NoDoubleApplication ==
    pc = "done" =>
        \A b \in BookNames :
            availableQuantity[b] =
                InitialQuantity - Purchases(purchased, b) + 3 * restocks[b]

\* The reasoner finished with both rules added, after customers bought a
\* book that an employee restocked.
ReasonerRanOverPurchasesAndRestocks ==
    /\ pc = "done"
    /\ reasoner = "finished"
    /\ rule1 = "added"
    /\ rule2 = "added"
    /\ \E b \in BookNames : Purchases(purchased, b) > 0 /\ restocks[b] > 0

DanglingReferences(logs, store) ==
    UNION {{<<c, k>> : k \in {j \in 1..Len(logs[c]) : logs[c][j] \notin store}}
              : c \in DOMAIN logs}

\* C9: referential integrity.  Every Book named in a customer's purchased
\* list, in the purchases relation or in the model's book list exists in the
\* store, in every state; so the consistency pass on the final state finds
\* no dangling reference.
ReferentialIntegrity ==
    /\ DanglingReferences(purchased, DOMAIN availableQuantity) = {}
    /\ DanglingReferences(ontoPurchases, DOMAIN availableQuantity) = {}
    /\ BookNames \subseteq DOMAIN availableQuantity
    /\ DOMAIN hasPrice = DOMAIN availableQuantity

\* The reasoner finished on a final state in which every customer holds
\* purchases, of more than one Book.
CheckedStoreWithPurchases ==
    /\ pc = "done"
    /\ reasoner = "finished"
    /\ \A c \in DOMAIN purchased : purchased[c] # <<>>
    /\ \E c \in DOMAIN purchased : Cardinality(Range(purchased[c])) >= 2

\* C10: the store is read-only once the run loop is over: no quantity, price
\* or purchased list changes, reasoner pass included, and what was exported
\* is the state at the end of the program.
ReadOnlyAfterRun ==
    /\ [][Finished =>
             /\ availableQuantity' = availableQuantity
             /\ hasPrice' = hasPrice
             /\ purchased' = purchased]_vars
    /\ [](pc \in {"reasoner", "done"} =>
             exported = Snapshot(availableQuantity, hasPrice, purchased))

\* The reasoner finished, with both rules added and employees in the model,
\* on a store that was exported with a Book below 2.
ReasonerRanOnLowStock ==
    /\ pc = "done"
    /\ reasoner = "finished"
    /\ rule1 = "added"
    /\ rule2 = "added"
    /\ numEmployees >= 1
    /\ \E b \in BookNames : exported.quantity[b] < 2

ReasonerFailureIsHarmless ==
    /\ pc = "done" => reasoner \in {"finished", "could not run"}
    /\ reasoner = "could not run" =>
          /\ pc = "done"
          /\ steps = numTicks
          /\ Snapshot(availableQuantity, hasPrice, purchased) = exported

\* The reasoner could not run at the end of a run of MaxTicks ticks in which
\* books were bought.
ReasonerFailedAfterFullRun ==
    /\ pc = "done"
    /\ reasoner = "could not run"
    /\ numTicks = MaxTicks
    /\ \E b \in BookNames : availableQuantity[b] < InitialQuantity

\* C13: a rule that fails to register does not abort the setup.  Whatever
\* the outcome of either registration, both were attempted before the model
\* is built, and the script goes on to run its N ticks and to end.
RuleRejectionIsNotFatal ==
    /\ [](pc \notin {"rule1", "rule2"} =>
             /\ rule1 \in {"added", "rejected"}
             /\ rule2 \in {"added", "rejected"})
    /\ [](Finished => steps = numTicks)
    /\ (rule1 = "rejected" \/ rule2 = "rejected")
          ~> (pc = "done" /\ steps = numTicks)

\* The purchase rule was rejected, the restock rule was added all the same,
\* and the run of several ticks has ended.
Rule1RejectedRule2Added ==
    /\ pc = "done"
    /\ rule1 = "rejected"
    /\ rule2 = "added"
    /\ numTicks >= 2
    /\ steps = numTicks

\* C14: a Book's price never changes and the set of Books never changes:
\* in every state the prices are those given at creation and the Books are
\* the three created at setup.
PricesAndBooksFixed ==
    /\ hasPrice = [b \in {"b1", "b2", "b3"} |->
                      CASE b = "b1" -> 1250 [] b = "b2" -> 1500 [] OTHER -> 999]
    /\ DOMAIN availableQuantity = {"b1", "b2", "b3"}
    /\ other.on => (other.hasPrice = hasPrice
                    /\ DOMAIN other.availableQuantity = DOMAIN availableQuantity)

\* The script has ended after one Book was sold out and another was bought.
SoldOutAndRestockedAtEnd ==
    /\ pc = "done"
    /\ \E b \in BookNames : availableQuantity[b] = 0
    /\ \E b \in BookNames : availableQuantity[b] \notin {0, InitialQuantity}

\* C15: a customer step that draws a Book in stock lowers that Book's
\* quantity by exactly 1 and appends that Book at the end of the acting
\* customer's own purchased list; no other quantity and no other customer's
\* list changes.
PurchaseEffectAndFrame ==
    [][(IsCustomerStep /\ availableQuantity[book'] > 0) =>
          /\ \A b \in BookNames :
                availableQuantity'[b] =
                    IF b = book' THEN availableQuantity[b] - 1
                    ELSE availableQuantity[b]
          /\ \A c \in DOMAIN purchased :
                purchased'[c] =
                    IF c = order[pos + 1] THEN purchased[c] \o <<book'>>
                    ELSE purchased[c]
          /\ DOMAIN purchased' = DOMAIN purchased]_vars

\* A customer has just bought a Book other than the one it bought first,
\* while another customer holds purchases of its own.
BoughtAnotherBook ==
    /\ pc = "step"
    /\ book # NoBook
    /\ pos > 0
    /\ IsCustomer(acted[pos])
    /\ LET log == purchased[acted[pos]]
       IN  /\ Len(log) = steps + 1
           /\ Len(log) >= 2
           /\ log[Len(log)] = book
           /\ log[1] # book
    /\ \E c \in DOMAIN purchased : c # acted[pos] /\ purchased[c] # <<>>

\* The entries of the relation f that name Book b.
EntriesFor(f, b) ==
    UNION {{<<c, k>> : k \in {j \in 1..Len(f[c]) : f[c][j] = b}} : c \in DOMAIN f}

\* C18: stock conservation.  In every state each Book's quantity is its
\* initial quantity, plus 3 per restock applied to it so far, minus the
\* number of entries for it in all customers' purchased lists.
StockConservation ==
    \A b \in BookNames :
        availableQuantity[b] =
            InitialQuantity + 3 * restocks[b] - Cardinality(EntriesFor(purchased, b))

\* A Book was bought four times, restocked once and bought again.
BoughtAfterRestock ==
    \E b \in BookNames :
        /\ restocks[b] = 1
        /\ Cardinality(EntriesFor(purchased, b)) = 5
        /\ availableQuantity[b] = 3

\* The larger of two numbers.
Max(x, y) == IF x >= y THEN x ELSE y

\* C19: stock is bounded above.  In every state each Book's quantity is at
\* most max(initial quantity, 4), which is 5 here, and a Book that has been
\* restocked holds at most 4.
StockBoundedAbove ==
    \A b \in BookNames :
        /\ availableQuantity[b] <= Max(InitialQuantity, 4)
        /\ availableQuantity[b] <= 5
        /\ restocks[b] >= 1 => availableQuantity[b] <= 4

\* With two employees in the model, a Book has just been restocked to 4
\* while another still holds its initial quantity.
RestockedToFour ==
    /\ pc = "step"
    /\ numEmployees = 2
    /\ pos > 0
    /\ ~IsCustomer(acted[pos])
    /\ \E b \in BookNames : restocks[b] = 1 /\ availableQuantity[b] = 4
    /\ \E b \in BookNames : availableQuantity[b] = InitialQuantity

=============================================================================
